---- MODULE Spec2Model ----
(***************************************************************************)
(* Access-control model of the classroom application's Firestore security  *)
(* rules: the current rule set (src/firestore.rules) and the legacy rule   *)
(* set (src/unnamed/part_001).  The state is the document store and the    *)
(* deployed rule set; every operation is a write request that the store    *)
(* applies iff the deployed rules allow it.                                *)
(*                                                                         *)
(* The client side is modelled next to it: the ClassProvider component     *)
(* (src/src/context/ClassContext.js) and the assignment details screen     *)
(* (src/unnamed/part_000).  A callback the provider hands out reads the    *)
(* state of the render it was created in; a state setter takes effect at   *)
(* once and is seen by callbacks only after the next render.  The screen's *)
(* handlers are called from its own buttons, which are rendered again      *)
(* before the next press is delivered: a handler reads the current state   *)
(* when it starts and keeps what it read across its awaits.                *)
(*                                                                         *)
(* Rule conditions are evaluated in three values, "T", "F" and "E"         *)
(* (evaluation error: a field of a missing document, a missing field, a    *)
(* property of null).  The rules language is based on the Common           *)
(* Expression Language: an error on one side of || or && is absorbed when  *)
(* the other side decides the result, and an allow statement grants only   *)
(* when its condition is "T".                                              *)
(***************************************************************************)
EXTENDS Naturals, Sequences, FiniteSets, TLC

VARIABLES docs, ruleSet, provider, screen

vars == <<docs, ruleSet, provider, screen>>

\* The state of the client components, which no request to the rules changes.
clientVars == <<provider, screen>>

\* ---------------------------------------------------------------- bounds
\* Number of Member documents the class holds at the same time.
MaxMembers == 1

\* -------------------------------------------------------------- universe
Users == {"u1", "u2", "u3"}
NoAuth == "noauth"
Actors == Users \cup {NoAuth}
Roles == {"admin", "teacher", "member"}
RuleSets == {"current", "legacy"}
Ops == {"read", "create", "update", "delete"}

Null == "null"
Undef == "undefined"
NullSet == {"null"}
UndefSet == {"undefined"}
NoDoc == [none |-> TRUE]

MaxPhotoSize == 1048576

\* ----------------------------------------------------------------- paths
ClassPath(c) == <<"classes", c>>
MemberPath(c, m) == <<"classes", c, "members", m>>
SubjectPath(c, s) == <<"classes", c, "subjects", s>>
SubPath(c, coll, id) == <<"classes", c, coll, id>>
CommentPath(c, a, k) == <<"classes", c, "assignments", a, "comments", k>>
UserPath(u) == <<"users", u>>
CompletedPath(u, k) == <<"users", u, "completedAssignments", k>>
RootAiPath(m) == <<"aiMaterials", m>>

MemberPaths == {MemberPath("c1", u) : u \in Users}
ExperiencePaths == {SubPath("c1", "experience", u) : u \in Users}
MediaColls == {"gallery", "albums", "featuredImages"}
MediaPaths == {SubPath("c1", coll, "i1") : coll \in MediaColls}
UserPaths == {UserPath(u) : u \in Users}
CompletedPaths == {CompletedPath(u, "k1") : u \in {"u1", "u2"}}

\* Paths that hold documents in the model.
StorePaths ==
  {ClassPath("c1"), SubjectPath("c1", "s1"),
   SubPath("c1", "completionApprovals", "a1"),
   SubPath("c1", "galleryApprovals", "g1"),
   SubPath("c1", "aiMaterials", "m1"),
   SubPath("c1", "assignments", "t1"),
   CommentPath("c1", "t1", "k1"),
   RootAiPath("m1")}
  \cup MemberPaths \cup ExperiencePaths \cup MediaPaths \cup UserPaths
  \cup CompletedPaths

\* Paths no rule block matches, in either rule set.
UnmatchedPaths ==
  {<<"classes", "c1", "notes", "n1">>,
   <<"classes", "c1", "subjects", "s1", "notes", "n1">>,
   <<"classes", "c1", "members", "u1", "roles", "r1">>,
   <<"inbox", "x1">>}

RequestPaths == StorePaths \cup UnmatchedPaths

\* ------------------------------------------------------------- documents
ClassDocs == [createdBy : Users]
MemberDocs == [userId : Users, role : Roles]
TeacherSets == {NullSet, {}} \cup {{u} : u \in Users}
SubjectDocs == [createdBy : Users, teachers : TeacherSets]

\* CompletionApproval payloads: the requester plus at most one populated
\* delegate field (subjectTeachers, approvedBy, gradedBy, or a createdBy
\* field, which the application's data model does not list but a caller
\* may send).
ApprovalBase(u) ==
  [userId |-> u, subjectTeachers |-> NullSet, approvedBy |-> Null,
   gradedBy |-> Null]
CompletionApprovalDocs ==
  UNION {
    {ApprovalBase(u)}
    \cup {[ApprovalBase(u) EXCEPT !.subjectTeachers = s] :
            s \in TeacherSets \ {NullSet}}
    \cup {[ApprovalBase(u) EXCEPT !.approvedBy = x] : x \in Users}
    \cup {[ApprovalBase(u) EXCEPT !.gradedBy = x] : x \in Users}
    \cup {[userId |-> u, subjectTeachers |-> NullSet, approvedBy |-> Null,
           gradedBy |-> Null, createdBy |-> x] : x \in Users}
    : u \in Users}

CreatedByDocs == [createdBy : Users]
CommentDocs == [userId : Users]
AiMaterialDocs == [createdByUid : Users]
RootAiMaterialDocs == [createdByUid : Users, classId : {"c1", "c9"}]
ExperienceDocs == {[total |-> "xp"]}
UserDocs ==
  {[name |-> "n"]}
  \cup {[name |-> "n", photoBase64 |-> z] : z \in {MaxPhotoSize - 1, MaxPhotoSize}}
CompletedBase == [approvedBy |-> Null, teacherId |-> Null, gradedBy |-> Null]
CompletedDocs ==
  {CompletedBase}
  \cup {[CompletedBase EXCEPT !.approvedBy = x] : x \in Users}
  \cup {[CompletedBase EXCEPT !.teacherId = x] : x \in Users}
  \cup {[CompletedBase EXCEPT !.gradedBy = x] : x \in Users}

\* The payloads a caller sends to a path.
Payloads(p) ==
  IF p = ClassPath("c1") THEN ClassDocs
  ELSE IF p \in MemberPaths THEN MemberDocs
  ELSE IF p = SubjectPath("c1", "s1") THEN SubjectDocs
  ELSE IF p = SubPath("c1", "completionApprovals", "a1") THEN CompletionApprovalDocs
  ELSE IF p = SubPath("c1", "aiMaterials", "m1") THEN AiMaterialDocs
  ELSE IF p = RootAiPath("m1") THEN RootAiMaterialDocs
  ELSE IF p = CommentPath("c1", "t1", "k1") THEN CommentDocs
  ELSE IF p \in ExperiencePaths THEN ExperienceDocs
  ELSE IF p \in UserPaths THEN UserDocs
  ELSE IF p \in CompletedPaths THEN CompletedDocs
  ELSE CreatedByDocs

\* ------------------------------------------------- three-valued conditions
B(b) == IF b THEN "T" ELSE "F"

\* a || b
Or3(a, b) ==
  IF a = "T" \/ b = "T" THEN "T"
  ELSE IF a = "E" \/ b = "E" THEN "E"
  ELSE "F"

\* a && b
And3(a, b) ==
  IF a = "F" \/ b = "F" THEN "F"
  ELSE IF a = "E" \/ b = "E" THEN "E"
  ELSE "T"

\* exists(path)
Exists(store, p) == p \in DOMAIN store /\ store[p] # NoDoc

\* get(path), and `resource` when p is the request's own path
Get(store, p) == IF p \in DOMAIN store THEN store[p] ELSE NoDoc

\* <doc>.data.<f> for a string field; Undef when the document or the field
\* is missing
Field(d, f) == IF d # NoDoc /\ f \in DOMAIN d THEN d[f] ELSE Undef

\* <doc>.data.<f> for a list field
SetField(d, f) == IF d # NoDoc /\ f \in DOMAIN d THEN d[f] ELSE UndefSet

\* AuthNotNull with the null check lost
AuthNotNullAlways(actor) == "T"

\* request.auth != null
AuthNotNull(actor) == B(actor # NoAuth)

\* UidEq where a value read from a missing document compares equal
UidEqMissingMatches(actor, v) ==
  IF actor = NoAuth THEN "E" ELSE B(v = Undef \/ actor = v)

\* request.auth.uid == v
UidEq(actor, v) ==
  IF actor = NoAuth \/ v = Undef THEN "E" ELSE B(actor = v)

\* v != null, for a string field
NotNull(v) == IF v = Undef THEN "E" ELSE B(v # Null)

\* s != null, for a list field
SetNotNull(s) == IF s = UndefSet THEN "E" ELSE B(s # NullSet)

\* request.auth.uid in s
UidIn(actor, s) ==
  IF actor = NoAuth \/ s = UndefSet \/ s = NullSet THEN "E" ELSE B(actor \in s)

\* request.auth.uid == get(/classes/$(classId)).data.createdBy
IsClassOwner(store, actor, c) ==
  UidEq(actor, Field(Get(store, ClassPath(c)), "createdBy"))

\* exists(/classes/$(classId)/members/$(request.auth.uid))
MemberExists(store, actor, c) ==
  IF actor = NoAuth THEN "E" ELSE B(Exists(store, MemberPath(c, actor)))

\* get(/classes/$(classId)/members/$(request.auth.uid)).data.role == r
MemberRoleIs(store, actor, c, r) ==
  LET role == IF actor = NoAuth THEN Undef
              ELSE Field(Get(store, MemberPath(c, actor)), "role")
  IN IF role = Undef THEN "E" ELSE B(role = r)

\* isAdmin() of the current rule set without the teacher role
IsAdminCurrentAdminOnly(store, actor, c, resource) ==
  Or3(UidEq(actor, Field(resource, "createdBy")),
      And3(MemberExists(store, actor, c),
           MemberRoleIs(store, actor, c, "admin")))

\* function isAdmin(), current rule set
IsAdminCurrent(store, actor, c, resource) ==
  Or3(UidEq(actor, Field(resource, "createdBy")),
      And3(MemberExists(store, actor, c),
           Or3(MemberRoleIs(store, actor, c, "admin"),
               MemberRoleIs(store, actor, c, "teacher"))))

\* function isAdmin(), legacy rule set
IsAdminLegacy(store, actor, c, resource) ==
  Or3(UidEq(actor, Field(resource, "createdBy")),
      And3(MemberExists(store, actor, c),
           MemberRoleIs(store, actor, c, "admin")))

IsAdmin(rs, store, actor, c, resource) ==
  IF rs = "current" THEN IsAdminCurrent(store, actor, c, resource)
  ELSE IsAdminLegacy(store, actor, c, resource)

\* isTeacher() that only checks that a Member record exists
IsTeacherAnyMember(store, actor, c) == MemberExists(store, actor, c)

\* function isTeacher()
IsTeacher(store, actor, c) ==
  And3(MemberExists(store, actor, c), MemberRoleIs(store, actor, c, "teacher"))

\* isTeacherForSubject without the isTeacher() conjunct
IsTeacherForSubjectAnyRole(store, actor, c, subjectId) ==
  LET teachers == SetField(Get(store, SubjectPath(c, subjectId)), "teachers")
  IN And3(And3(B(Exists(store, SubjectPath(c, subjectId))),
               SetNotNull(teachers)),
          UidIn(actor, teachers))

\* isTeacherForSubject without the teachers != null conjunct
IsTeacherForSubjectNoNullCheck(store, actor, c, subjectId) ==
  LET teachers == SetField(Get(store, SubjectPath(c, subjectId)), "teachers")
  IN And3(And3(B(Exists(store, SubjectPath(c, subjectId))),
               IsTeacher(store, actor, c)),
          UidIn(actor, teachers))

\* function isTeacherForSubject(subjectId)
IsTeacherForSubject(store, actor, c, subjectId) ==
  LET teachers == SetField(Get(store, SubjectPath(c, subjectId)), "teachers")
  IN And3(And3(And3(B(Exists(store, SubjectPath(c, subjectId))),
                    IsTeacher(store, actor, c)),
               SetNotNull(teachers)),
          UidIn(actor, teachers))

\* ----------------------------------------------------------- rule blocks
\* Each block gives the values of the allow statements it declares for the
\* operation; an operation with no allow statement gives the empty set.

\* ClassesBlock with update and delete also granted to a Member of role admin
ClassesBlockAdminWrite(store, op, actor, path) ==
  LET resource == Get(store, path) IN
  IF op \in {"read", "create"} THEN {AuthNotNull(actor)}
  ELSE {And3(AuthNotNull(actor),
             Or3(UidEq(actor, Field(resource, "createdBy")),
                 And3(MemberExists(store, actor, path[2]),
                      MemberRoleIs(store, actor, path[2], "admin"))))}

\* match /classes/{classId}  (same text in both rule sets)
ClassesBlock(store, op, actor, path) ==
  LET resource == Get(store, path) IN
  IF op \in {"read", "create"} THEN {AuthNotNull(actor)}
  ELSE {And3(AuthNotNull(actor), UidEq(actor, Field(resource, "createdBy")))}

\* MembersBlock comparing the actor with the document key memberId
MembersBlockByKey(store, op, actor, path, new) ==
  LET c == path[2]
      memberId == path[4]
  IN IF op = "read" THEN {AuthNotNull(actor)}
     ELSE {And3(AuthNotNull(actor),
                Or3(IsClassOwner(store, actor, c), UidEq(actor, memberId)))}

\* match /members/{memberId}  (same text in both rule sets)
MembersBlock(store, op, actor, path, new) ==
  LET resource == Get(store, path)
      c == path[2]
  IN IF op = "read" THEN {AuthNotNull(actor)}
     ELSE IF op = "create" THEN
       {And3(AuthNotNull(actor),
             Or3(IsClassOwner(store, actor, c),
                 UidEq(actor, Field(new, "userId"))))}
     ELSE
       {And3(AuthNotNull(actor),
             Or3(IsClassOwner(store, actor, c),
                 UidEq(actor, Field(resource, "userId"))))}

\* AiMaterialsBlock whose current delete statement names the creator only
AiMaterialsBlockCreatorDelete(rs, store, op, actor, path) ==
  LET resource == Get(store, path)
      c == path[2]
      creator == And3(AuthNotNull(actor),
                      UidEq(actor, Field(resource, "createdByUid")))
      creatorOrOwner ==
        And3(AuthNotNull(actor),
             Or3(UidEq(actor, Field(resource, "createdByUid")),
                 IsClassOwner(store, actor, c)))
  IN IF op \in {"read", "create"} THEN {AuthNotNull(actor)}
     ELSE IF op = "update" THEN
       (IF rs = "current" THEN {AuthNotNull(actor)} ELSE {creatorOrOwner})
     ELSE IF rs = "current" THEN {creator}
     ELSE {creatorOrOwner}

\* match /aiMaterials/{materialId} inside a class
AiMaterialsBlock(rs, store, op, actor, path) ==
  LET resource == Get(store, path)
      c == path[2]
      creatorOrOwner ==
        And3(AuthNotNull(actor),
             Or3(UidEq(actor, Field(resource, "createdByUid")),
                 IsClassOwner(store, actor, c)))
  IN IF op \in {"read", "create"} THEN {AuthNotNull(actor)}
     ELSE IF op = "update" THEN
       (IF rs = "current" THEN {AuthNotNull(actor)} ELSE {creatorOrOwner})
     ELSE {creatorOrOwner}

\* match /assignments/{assignmentId}  (same text in both rule sets)
AssignmentsBlock(store, op, actor, path) ==
  LET resource == Get(store, path)
      c == path[2]
  IN IF op \in {"read", "create"} THEN {AuthNotNull(actor)}
     ELSE {And3(AuthNotNull(actor),
                Or3(UidEq(actor, Field(resource, "createdBy")),
                    IsClassOwner(store, actor, c)))}

\* CommentsBlock with the class owner's statement written for update too
CommentsBlockOwnerUpdate(store, op, actor, path) ==
  LET resource == Get(store, path)
      c == path[2]
      author == And3(AuthNotNull(actor), UidEq(actor, Field(resource, "userId")))
  IN IF op \in {"read", "create"} THEN {AuthNotNull(actor)}
     ELSE {author, And3(AuthNotNull(actor), IsClassOwner(store, actor, c))}

\* match /comments/{commentId}  (same text in both rule sets)
CommentsBlock(store, op, actor, path) ==
  LET resource == Get(store, path)
      c == path[2]
      author == And3(AuthNotNull(actor), UidEq(actor, Field(resource, "userId")))
  IN IF op \in {"read", "create"} THEN {AuthNotNull(actor)}
     ELSE IF op = "update" THEN {author}
     ELSE {author, And3(AuthNotNull(actor), IsClassOwner(store, actor, c))}

\* match /completionApprovals/{approvalId}
CompletionApprovalsBlock(rs, store, op, actor, path, new) ==
  LET resource == Get(store, path)
      c == path[2]
      subjectTeachers == SetField(resource, "subjectTeachers")
      approvedBy == Field(resource, "approvedBy")
      gradedBy == Field(resource, "gradedBy")
  IN IF op = "read" THEN {AuthNotNull(actor)}
     ELSE IF op = "create" THEN
       {And3(AuthNotNull(actor), UidEq(actor, Field(new, "userId")))}
     ELSE IF rs = "current" THEN
       {And3(AuthNotNull(actor),
          Or3(IsClassOwner(store, actor, c),
          Or3(IsAdmin(rs, store, actor, c, resource),
          Or3(IsTeacher(store, actor, c),
          Or3(And3(SetNotNull(subjectTeachers), UidIn(actor, subjectTeachers)),
          Or3(And3(NotNull(approvedBy), UidEq(actor, approvedBy)),
              And3(NotNull(gradedBy), UidEq(actor, gradedBy))))))))}
     ELSE {And3(AuthNotNull(actor), IsClassOwner(store, actor, c))}

\* SubjectsBlock with delete sharing the update statement
SubjectsBlockTeacherDelete(rs, store, op, actor, path) ==
  LET resource == Get(store, path)
      c == path[2]
      creatorOrOwner ==
        Or3(UidEq(actor, Field(resource, "createdBy")),
            IsClassOwner(store, actor, c))
  IN IF op \in {"read", "create"} THEN {AuthNotNull(actor)}
     ELSE IF rs = "current" THEN
       {And3(AuthNotNull(actor),
             Or3(creatorOrOwner, IsTeacherForSubject(store, actor, c, path[4])))}
     ELSE {And3(AuthNotNull(actor), creatorOrOwner)}

\* match /subjects/{subjectId}
SubjectsBlock(rs, store, op, actor, path) ==
  LET resource == Get(store, path)
      c == path[2]
      creatorOrOwner ==
        Or3(UidEq(actor, Field(resource, "createdBy")),
            IsClassOwner(store, actor, c))
  IN IF op \in {"read", "create"} THEN {AuthNotNull(actor)}
     ELSE IF op = "update" /\ rs = "current" THEN
       {And3(AuthNotNull(actor),
             Or3(creatorOrOwner, IsTeacherForSubject(store, actor, c, path[4])))}
     ELSE {And3(AuthNotNull(actor), creatorOrOwner)}

\* ExperienceBlock with the create/update statements written as `allow write`
ExperienceBlockAllowWrite(store, op, actor, path) ==
  LET c == path[2]
      userId == path[4]
  IN IF op = "read" THEN {AuthNotNull(actor)}
     ELSE {And3(AuthNotNull(actor), UidEq(actor, userId)),
           And3(AuthNotNull(actor), IsClassOwner(store, actor, c))}

\* match /experience/{userId}  (same text in both rule sets)
ExperienceBlock(store, op, actor, path) ==
  LET c == path[2]
      userId == path[4]
  IN IF op = "read" THEN {AuthNotNull(actor)}
     ELSE IF op \in {"create", "update"} THEN
       {And3(AuthNotNull(actor), UidEq(actor, userId)),
        And3(AuthNotNull(actor), IsClassOwner(store, actor, c))}
     ELSE {}

\* MediaBlock where the comparison with a missing `resource` fails the whole
\* statement
MediaBlockStrictResource(rs, store, op, actor, path) ==
  LET resource == Get(store, path)
      c == path[2]
  IN IF op = "read" THEN {AuthNotNull(actor)}
     ELSE IF resource = NoDoc THEN {"E"}
     ELSE {And3(AuthNotNull(actor),
                Or3(UidEq(actor, Field(resource, "createdBy")),
                Or3(IsClassOwner(store, actor, c),
                    IsAdmin(rs, store, actor, c, resource))))}

\* match /gallery/{imageId}, /albums/{albumId}, /featuredImages/{imageId}
\* (the three blocks have the same text, in both rule sets)
MediaBlock(rs, store, op, actor, path) ==
  LET resource == Get(store, path)
      c == path[2]
  IN IF op = "read" THEN {AuthNotNull(actor)}
     ELSE {And3(AuthNotNull(actor),
                Or3(UidEq(actor, Field(resource, "createdBy")),
                Or3(IsClassOwner(store, actor, c),
                    IsAdmin(rs, store, actor, c, resource))))}

\* match /galleryApprovals/{approvalId}
GalleryApprovalsBlock(rs, store, op, actor, path, new) ==
  LET resource == Get(store, path)
      c == path[2]
  IN IF op = "read" THEN {AuthNotNull(actor)}
     ELSE IF op = "create" THEN
       {And3(AuthNotNull(actor), UidEq(actor, Field(new, "createdBy")))}
     ELSE {And3(AuthNotNull(actor),
                Or3(IsClassOwner(store, actor, c),
                    IsAdmin(rs, store, actor, c, resource)))}

\* request.resource.data.keys().hasAny(['photoBase64'])
HasPhoto(new) == IF new = NoDoc THEN "E" ELSE B("photoBase64" \in DOMAIN new)

\* request.resource.data.photoBase64.size() < 1048576
PhotoFits(new) ==
  IF new # NoDoc /\ "photoBase64" \in DOMAIN new
  THEN B(new.photoBase64 < MaxPhotoSize) ELSE "E"

Not3(a) == IF a = "T" THEN "F" ELSE IF a = "F" THEN "T" ELSE "E"

\* match /users/{userId}  (same text in both rule sets)
UsersBlock(op, actor, path, new) ==
  LET userId == path[2]
      self == And3(AuthNotNull(actor), UidEq(actor, userId))
  IN IF op = "read" THEN {AuthNotNull(actor)}
     ELSE IF op = "update" THEN
       {self,
        And3(self, Or3(Not3(HasPhoto(new)), And3(HasPhoto(new), PhotoFits(new))))}
     ELSE {self}

\* CompletedAssignmentsBlock with update also granted to the owning user
CompletedAssignmentsBlockOwnerUpdate(store, op, actor, path) ==
  LET resource == Get(store, path)
      userId == path[2]
  IN IF op = "read" THEN {And3(AuthNotNull(actor), UidEq(actor, userId))}
     ELSE IF op = "create" THEN {AuthNotNull(actor)}
     ELSE IF op = "update" THEN
       {And3(AuthNotNull(actor),
             Or3(UidEq(actor, userId),
             Or3(UidEq(actor, Field(resource, "approvedBy")),
             Or3(UidEq(actor, Field(resource, "teacherId")),
                 UidEq(actor, Field(resource, "gradedBy"))))))}
     ELSE {}

\* match /completedAssignments/{completionId}  (current rule set only)
CompletedAssignmentsBlock(store, op, actor, path) ==
  LET resource == Get(store, path)
      userId == path[2]
  IN IF op = "read" THEN {And3(AuthNotNull(actor), UidEq(actor, userId))}
     ELSE IF op = "create" THEN {AuthNotNull(actor)}
     ELSE IF op = "update" THEN
       {And3(AuthNotNull(actor),
             Or3(UidEq(actor, Field(resource, "approvedBy")),
             Or3(UidEq(actor, Field(resource, "teacherId")),
                 UidEq(actor, Field(resource, "gradedBy")))))}
     ELSE {}

\* RootAiMaterialsBlock with the two update/delete conditions in one
\* statement joined by &&
RootAiMaterialsBlockBoth(store, op, actor, path) ==
  LET resource == Get(store, path)
      classId == Field(resource, "classId")
      owner == IF classId = Undef THEN "E" ELSE IsClassOwner(store, actor, classId)
  IN IF op \in {"read", "create"} THEN {AuthNotNull(actor)}
     ELSE {And3(AuthNotNull(actor),
                And3(UidEq(actor, Field(resource, "createdByUid")), owner))}

\* match /aiMaterials/{materialId} at the root  (legacy rule set only)
RootAiMaterialsBlock(store, op, actor, path) ==
  LET resource == Get(store, path)
      classId == Field(resource, "classId")
      owner == IF classId = Undef THEN "E" ELSE IsClassOwner(store, actor, classId)
  IN IF op \in {"read", "create"} THEN {AuthNotNull(actor)}
     ELSE {And3(AuthNotNull(actor), UidEq(actor, Field(resource, "createdByUid"))),
           And3(AuthNotNull(actor), owner)}

\* -------------------------------------------------------- path matching
\* The allow statements of the rule block that matches the path exactly;
\* a path no block matches has none.
Statements(rs, store, op, actor, path, new) ==
  IF Len(path) = 2 /\ path[1] = "classes" THEN
    ClassesBlock(store, op, actor, path)
  ELSE IF Len(path) = 4 /\ path[1] = "classes" THEN
    CASE path[3] = "members" -> MembersBlock(store, op, actor, path, new)
      [] path[3] = "aiMaterials" -> AiMaterialsBlock(rs, store, op, actor, path)
      [] path[3] = "assignments" -> AssignmentsBlock(store, op, actor, path)
      [] path[3] = "completionApprovals" ->
           CompletionApprovalsBlock(rs, store, op, actor, path, new)
      [] path[3] = "subjects" -> SubjectsBlock(rs, store, op, actor, path)
      [] path[3] = "experience" -> ExperienceBlock(store, op, actor, path)
      [] path[3] \in MediaColls -> MediaBlock(rs, store, op, actor, path)
      [] path[3] = "galleryApprovals" ->
           GalleryApprovalsBlock(rs, store, op, actor, path, new)
      [] OTHER -> {}
  ELSE IF Len(path) = 6 /\ path[1] = "classes" /\ path[3] = "assignments"
          /\ path[5] = "comments" THEN
    CommentsBlock(store, op, actor, path)
  ELSE IF Len(path) = 2 /\ path[1] = "users" THEN
    UsersBlock(op, actor, path, new)
  ELSE IF Len(path) = 4 /\ path[1] = "users" /\ path[3] = "completedAssignments"
          /\ rs = "current" THEN
    CompletedAssignmentsBlock(store, op, actor, path)
  ELSE IF Len(path) = 2 /\ path[1] = "aiMaterials" /\ rs = "legacy" THEN
    RootAiMaterialsBlock(store, op, actor, path)
  ELSE {}

\* The decision: allow iff some allow statement for the operation is true.
Allowed(rs, store, op, actor, path, new) ==
  "T" \in Statements(rs, store, op, actor, path, new)

\* --------------------------------------------------------------- actions
\* The store holds a (possibly missing) document at every path of its
\* scope, and nothing anywhere else.
\* ------------------------------------------------------- ClassProvider
\* Class documents as getUserClasses returns them.
ClassIds == {"a", "b"}

ClassObjs == [id : ClassIds, requireCompletionApproval : BOOLEAN]

\* currentClass === null
NoClass == [null |-> TRUE]

\* The order in which getUserClasses lists the classes.
ClassOrder == <<"a", "b">>

\* Sets of class documents with one document per id.
ClassSets ==
  {S \in SUBSET ClassObjs : \A c, d \in S : c.id = d.id => c = d}

\* getUserClasses(): the user's classes as a list
UserClassesList(S) ==
  LET ids == SelectSeq(ClassOrder, LAMBDA i : \E c \in S : c.id = i)
  IN [k \in 1..Len(ids) |-> CHOOSE c \in S : c.id = ids[k]]

\* What the callbacks created by a render see of the state.
Snapshot(p) ==
  [classes |-> p.classes,
   currentClass |-> p.currentClass,
   isClassSwitching |-> p.isClassSwitching]

\* useState / useRef initial values of ClassProvider, with nobody logged in,
\* nothing persisted and no class on the server.
ProviderInit ==
  [user |-> FALSE,
   classes |-> <<>>,
   currentClass |-> NoClass,
   isClassSwitching |-> FALSE,
   lastActiveClassId |-> Null,
   refreshChanged |-> FALSE,
   rendered |-> [classes |-> <<>>, currentClass |-> NoClass,
                 isClassSwitching |-> FALSE],
   switchCalls |-> <<>>,
   loadCalls |-> <<>>,
   idReads |-> 0,
   storedActiveClassId |-> Null,
   serverClasses |-> {}]

\* ---- the assignment details screen (unnamed/part_000): data ----

\* The most evidence photos a completion request takes.
MaxPhotos == 5

\* The assets a picker returns; their content plays no part.
Photos == {"photo"}

NoAssignment == [null |-> TRUE]

\* commentsUnsubscribe.current before any subscription: useRef(null).
\* Subscriptions are numbered from 1.
NoSubscription == 0

\* ASSIGNMENT_STATUS
AssignmentStatus == {"ONGOING", "FINISHED"}

\* useState / useRef initial values of the assignment details screen, before
\* it is mounted.  The calls in flight (pickers, submissions, toggles, class
\* detail reads, group updates), the comment listeners that are attached and
\* the number of subscriptions opened so far are part of the state.
ScreenInit ==
  [mounted |-> FALSE,
   assignment |-> NoAssignment,
   isJoining |-> FALSE,
   showJoinGroupModal |-> FALSE,
   requiresApproval |-> FALSE,
   photoSelectionVisible |-> FALSE,
   selectedPhotos |-> <<>>,
   isSubmittingCompletion |-> FALSE,
   hasPendingApproval |-> FALSE,
   successAlert |-> FALSE,
   pickerCalls |-> <<>>,
   submitCalls |-> 0,
   toggleCalls |-> <<>>,
   approvalChecks |-> 0,
   completionLoads |-> 0,
   joinCalls |-> <<>>,
   commentsUnsubscribe |-> NoSubscription,
   listeners |-> {},
   subscribed |-> 0]

EmptyStore(scope) == [p \in scope |-> NoDoc]

MemberCount == Cardinality({m \in MemberPaths \cap DOMAIN docs : docs[m] # NoDoc})

\* A write to a path that holds no document is a create.
CreateDoc(actor, p) ==
  /\ docs[p] = NoDoc
  /\ p \in MemberPaths => MemberCount < MaxMembers
  /\ \E new \in Payloads(p) :
       /\ Allowed(ruleSet, docs, "create", actor, p, new)
       /\ docs' = [docs EXCEPT ![p] = new]
  /\ UNCHANGED <<ruleSet, clientVars>>

\* A write to a path that holds a document is an update.
UpdateDoc(actor, p) ==
  /\ docs[p] # NoDoc
  /\ \E new \in Payloads(p) :
       /\ Allowed(ruleSet, docs, "update", actor, p, new)
       /\ docs' = [docs EXCEPT ![p] = new]
  /\ UNCHANGED <<ruleSet, clientVars>>

\* A delete removes the document and leaves its subcollections in place.
DeleteDoc(actor, p) ==
  /\ docs[p] # NoDoc
  /\ Allowed(ruleSet, docs, "delete", actor, p, NoDoc)
  /\ docs' = [docs EXCEPT ![p] = NoDoc]
  /\ UNCHANGED <<ruleSet, clientVars>>

\* Classes, members and subjects.
SubjectScope == {ClassPath("c1"), SubjectPath("c1", "s1")} \cup MemberPaths

Init ==
  /\ docs = EmptyStore(SubjectScope)
  /\ ruleSet \in RuleSets
  /\ provider = ProviderInit
  /\ screen = ScreenInit

Next ==
  \E actor \in Actors, p \in SubjectScope :
    \/ CreateDoc(actor, p)
    \/ UpdateDoc(actor, p)
    \/ DeleteDoc(actor, p)

Spec == Init /\ [][Next]_vars

\* Classes, members and completion approvals.  The completion-approval
\* rules that depend on Member roles are those of the current rule set.
ApprovalScope ==
  {ClassPath("c1"), SubPath("c1", "completionApprovals", "a1")} \cup MemberPaths

InitApprovals ==
  /\ docs = EmptyStore(ApprovalScope)
  /\ ruleSet = "current"
  /\ provider = ProviderInit
  /\ screen = ScreenInit

NextApprovals ==
  \E actor \in Actors, p \in ApprovalScope :
    \/ CreateDoc(actor, p)
    \/ UpdateDoc(actor, p)
    \/ DeleteDoc(actor, p)

SpecApprovals == InitApprovals /\ [][NextApprovals]_vars

\* Classes, members and gallery approvals.
GalleryScope ==
  {ClassPath("c1"), SubPath("c1", "galleryApprovals", "g1")} \cup MemberPaths

InitGallery ==
  /\ docs = EmptyStore(GalleryScope)
  /\ ruleSet \in RuleSets
  /\ provider = ProviderInit
  /\ screen = ScreenInit

NextGallery ==
  \E actor \in Actors, p \in GalleryScope :
    \/ CreateDoc(actor, p)
    \/ UpdateDoc(actor, p)
    \/ DeleteDoc(actor, p)

SpecGallery == InitGallery /\ [][NextGallery]_vars

\* Classes, experience records and the users' completed assignments.
LeafScope == {ClassPath("c1")} \cup ExperiencePaths \cup CompletedPaths

InitLeaves ==
  /\ docs = EmptyStore(LeafScope)
  /\ ruleSet \in RuleSets
  /\ provider = ProviderInit
  /\ screen = ScreenInit

NextLeaves ==
  \E actor \in Actors, p \in LeafScope :
    \/ CreateDoc(actor, p)
    \/ UpdateDoc(actor, p)
    \/ DeleteDoc(actor, p)

SpecLeaves == InitLeaves /\ [][NextLeaves]_vars

\* Every collection of the rules.  Callers work on one document at a time
\* besides the class and the Member record: a document outside those two is
\* created only while no other such document exists.  The Member record is
\* that of user u2.
StoreScope == (StorePaths \ MemberPaths) \cup {MemberPath("c1", "u2")}

TargetPaths == StoreScope \ {ClassPath("c1"), MemberPath("c1", "u2")}

NoOtherTarget(p) ==
  p \in TargetPaths => \A q \in TargetPaths : docs[q] = NoDoc

InitStore ==
  /\ docs = EmptyStore(StoreScope)
  /\ ruleSet \in RuleSets
  /\ provider = ProviderInit
  /\ screen = ScreenInit

NextStore ==
  \E actor \in Actors, p \in StoreScope :
    \/ (NoOtherTarget(p) /\ CreateDoc(actor, p))
    \/ UpdateDoc(actor, p)
    \/ DeleteDoc(actor, p)

SpecStore == InitStore /\ [][NextStore]_vars

\* A class owned by u1 in which only the other users act.
NonOwners == Users \ {"u1"}

InitNonOwner ==
  /\ docs = [EmptyStore(ApprovalScope) EXCEPT
               ![ClassPath("c1")] = [createdBy |-> "u1"]]
  /\ ruleSet \in RuleSets
  /\ provider = ProviderInit
  /\ screen = ScreenInit

NextNonOwner ==
  \E actor \in NonOwners, p \in ApprovalScope :
    \/ CreateDoc(actor, p)
    \/ UpdateDoc(actor, p)
    \/ DeleteDoc(actor, p)

SpecNonOwner == InitNonOwner /\ [][NextNonOwner]_vars

\* ------------------------------------------------- facts about the store
TheClass == ClassPath("c1")
TheSubject == SubjectPath("c1", "s1")

ClassOwnedBy(a) == docs[TheClass] # NoDoc /\ docs[TheClass].createdBy = a

HasMemberRole(a, r) ==
  /\ a \in Users
  /\ MemberPath("c1", a) \in DOMAIN docs
  /\ docs[MemberPath("c1", a)] # NoDoc
  /\ docs[MemberPath("c1", a)].role = r

HasMemberRecord(a) == a \in Users /\ docs[MemberPath("c1", a)] # NoDoc

SubjectCreatedBy(a) == docs[TheSubject] # NoDoc /\ docs[TheSubject].createdBy = a

InSubjectTeachers(a) ==
  /\ docs[TheSubject] # NoDoc
  /\ docs[TheSubject].teachers # NullSet
  /\ a \in docs[TheSubject].teachers

\* The payloads a request for the operation carries.
RequestPayloads(op, p) ==
  IF op \in {"create", "update"} THEN Payloads(p) ELSE {NoDoc}

\* ----------------------------------------------------------------- claims

\* C1: a request whose actor is null (unauthenticated) is denied, for every
\* operation, every path and every store state, under the current and the
\* legacy rule set.
C1_UnauthenticatedDenied ==
  \A rs \in RuleSets, op \in Ops, p \in RequestPaths :
    \A new \in RequestPayloads(op, p) :
      ~Allowed(rs, docs, op, NoAuth, p, new)

\* A class and a subject exist; their owner may delete the class and the
\* unauthenticated caller may not.
C1_Witness ==
  /\ docs[TheClass] # NoDoc
  /\ docs[TheSubject] # NoDoc
  /\ Allowed(ruleSet, docs, "delete", docs[TheClass].createdBy, TheClass, NoDoc)
  /\ ~Allowed(ruleSet, docs, "delete", NoAuth, TheClass, NoDoc)

\* C2: update and delete of the Class document are allowed iff the actor is
\* the existing document's createdBy; every other actor is denied, also one
\* whose Member record has role admin or teacher.
C2_ClassWriteOnlyByCreator ==
  \A rs \in RuleSets, op \in {"update", "delete"}, a \in Actors :
    \A new \in RequestPayloads(op, TheClass) :
      Allowed(rs, docs, op, a, TheClass, new) <=> ClassOwnedBy(a)

\* The class has an owner and another actor holds role admin in it.
C2_Witness ==
  \E a, b \in Users :
    /\ a # b
    /\ ClassOwnedBy(a)
    /\ HasMemberRole(b, "admin")
    /\ Allowed(ruleSet, docs, "delete", a, TheClass, NoDoc)
    /\ ~Allowed(ruleSet, docs, "delete", b, TheClass, NoDoc)

\* C3: under the current rule set, update of a Subject is allowed when the
\* actor is the subject's createdBy, or the class's createdBy, or holds role
\* teacher and is in the subject's teachers; delete is allowed only in the
\* first two cases, so an actor who is only teacher-for-subject is allowed
\* update and denied delete.
C3_SubjectUpdateDelete ==
  \A a \in Users :
    docs[TheSubject] # NoDoc =>
      /\ \A new \in Payloads(TheSubject) :
           Allowed("current", docs, "update", a, TheSubject, new)
             <=> \/ SubjectCreatedBy(a)
                 \/ ClassOwnedBy(a)
                 \/ (HasMemberRole(a, "teacher") /\ InSubjectTeachers(a))
      /\ Allowed("current", docs, "delete", a, TheSubject, NoDoc)
           <=> (SubjectCreatedBy(a) \/ ClassOwnedBy(a))

\* Some actor qualifies only as teacher-for-subject: update allowed, delete
\* denied.
C3_Witness ==
  \E a \in Users :
    /\ HasMemberRole(a, "teacher") /\ InSubjectTeachers(a)
    /\ ~SubjectCreatedBy(a) /\ ~ClassOwnedBy(a)
    /\ docs[TheClass] # NoDoc
    /\ Allowed("current", docs, "update", a, TheSubject, docs[TheSubject])
    /\ ~Allowed("current", docs, "delete", a, TheSubject, NoDoc)

\* C7 as stated: being in a Subject's teachers set grants update whatever
\* the actor's Member role is (teacher, admin, member or no record), and
\* never grants delete.
C7_TeachersSetGrantsUpdateAnyRole ==
  \A a \in Users :
    InSubjectTeachers(a) =>
      /\ \A new \in Payloads(TheSubject) :
           Allowed("current", docs, "update", a, TheSubject, new)
      /\ Allowed("current", docs, "delete", a, TheSubject, NoDoc)
           => (SubjectCreatedBy(a) \/ ClassOwnedBy(a))

\* C7 amended: for an actor in the teachers set who is neither the subject's
\* creator nor the class owner, update is allowed exactly when the actor's
\* Member record has role teacher, and delete is denied.
C7_TeachersSetNeedsTeacherRole ==
  \A a \in Users :
    (InSubjectTeachers(a) /\ ~SubjectCreatedBy(a) /\ ~ClassOwnedBy(a)) =>
      /\ \A new \in Payloads(TheSubject) :
           Allowed("current", docs, "update", a, TheSubject, new)
             <=> HasMemberRole(a, "teacher")
      /\ ~Allowed("current", docs, "delete", a, TheSubject, NoDoc)

\* An actor of role admin is in the teachers set and is denied update.
C7_Witness ==
  \E a \in Users :
    /\ InSubjectTeachers(a) /\ HasMemberRole(a, "admin")
    /\ ~SubjectCreatedBy(a) /\ ~ClassOwnedBy(a)
    /\ docs[TheClass] # NoDoc
    /\ ~Allowed("current", docs, "update", a, TheSubject, docs[TheSubject])

\* C8: isTeacherForSubject is false, not an error, when the Subject does not
\* exist, when the actor has no Member record, or when the teachers field is
\* null; the update is then allowed iff the actor is the subject's creator
\* or the class owner.
C8_MissingLookupIsFalse ==
  \A a \in Users :
    (\/ docs[TheSubject] = NoDoc
     \/ ~HasMemberRecord(a)
     \/ docs[TheSubject].teachers = NullSet) =>
      /\ IsTeacherForSubject(docs, a, "c1", "s1") = "F"
      /\ \A new \in Payloads(TheSubject) :
           Allowed("current", docs, "update", a, TheSubject, new)
             <=> (SubjectCreatedBy(a) \/ ClassOwnedBy(a))

\* The teachers field is null; a teacher who is neither creator nor owner is
\* denied update and the class owner is allowed.
C8_Witness ==
  \E a, b \in Users :
    /\ docs[TheSubject] # NoDoc /\ docs[TheSubject].teachers = NullSet
    /\ HasMemberRole(a, "teacher")
    /\ ~SubjectCreatedBy(a) /\ ~ClassOwnedBy(a)
    /\ ClassOwnedBy(b) /\ ~SubjectCreatedBy(b)
    /\ ~Allowed("current", docs, "update", a, TheSubject, docs[TheSubject])
    /\ Allowed("current", docs, "update", b, TheSubject, docs[TheSubject])

\* C9: a request is denied for every actor when no rule block matches its
\* path or the matched block declares no allow statement for the operation;
\* nothing is inherited from the class block.  Delete of an experience
\* record and of a completed-assignment record is denied to everyone.
C9_NoStatementNoAccess ==
  \A rs \in RuleSets, a \in Actors, op \in Ops :
    /\ \A p \in UnmatchedPaths :
         \A new \in RequestPayloads(op, p) : ~Allowed(rs, docs, op, a, p, new)
    /\ \A p \in ExperiencePaths \cup CompletedPaths :
         ~Allowed(rs, docs, "delete", a, p, NoDoc)
    /\ rs = "legacy" =>
         \A p \in CompletedPaths :
           \A new \in RequestPayloads(op, p) : ~Allowed(rs, docs, op, a, p, new)
    /\ rs = "current" =>
         \A new \in RequestPayloads(op, RootAiPath("m1")) :
           ~Allowed(rs, docs, op, a, RootAiPath("m1"), new)

\* The class owner may update the class and user u1's experience record,
\* and may delete neither that record nor u1's completed assignment; u1
\* may not delete them either.
C9_Witness ==
  \E b \in Users :
    LET e == SubPath("c1", "experience", "u1")
        k == CompletedPath("u1", "k1")
    IN /\ ClassOwnedBy(b)
       /\ docs[e] # NoDoc /\ docs[k] # NoDoc
       /\ Allowed(ruleSet, docs, "update", b, TheClass, docs[TheClass])
       /\ Allowed(ruleSet, docs, "update", b, e, docs[e])
       /\ ~Allowed(ruleSet, docs, "delete", b, e, NoDoc)
       /\ ~Allowed(ruleSet, docs, "delete", "u1", e, NoDoc)
       /\ ~Allowed(ruleSet, docs, "delete", "u1", k, NoDoc)

TheGalleryApproval == SubPath("c1", "galleryApprovals", "g1")

\* C10: update and delete of a GalleryApproval are allowed only to the class
\* owner or to an actor whose Member record has an admin-equivalent role
\* (admin; also teacher under the current rule set); the creator of the
\* request who has no such role is denied.
C10_GalleryApprovalOnlyOwnerOrAdmin ==
  \A rs \in RuleSets, a \in Users, op \in {"update", "delete"} :
    docs[TheGalleryApproval] # NoDoc =>
      \A new \in RequestPayloads(op, TheGalleryApproval) :
        Allowed(rs, docs, op, a, TheGalleryApproval, new)
          => \/ ClassOwnedBy(a)
             \/ HasMemberRole(a, "admin")
             \/ (rs = "current" /\ HasMemberRole(a, "teacher"))

TheApproval == SubPath("c1", "completionApprovals", "a1")

InSubjectTeachersOf(d, a) ==
  d.subjectTeachers # NullSet /\ a \in d.subjectTeachers

\* C4: update of a CompletionApproval is allowed iff the actor is the class
\* owner, a class admin, a class teacher, named in subjectTeachers, equal to
\* approvedBy or equal to gradedBy; when all six are false it is denied.
C4_ApprovalUpdateSixConditions ==
  \A a \in Users :
    docs[TheApproval] # NoDoc =>
      \A new \in Payloads(TheApproval) :
        Allowed("current", docs, "update", a, TheApproval, new)
          <=> \/ ClassOwnedBy(a)
              \/ HasMemberRole(a, "admin")
              \/ HasMemberRole(a, "teacher")
              \/ InSubjectTeachersOf(docs[TheApproval], a)
              \/ docs[TheApproval].approvedBy = a
              \/ docs[TheApproval].gradedBy = a

OwnershipFields == {"createdBy", "userId", "approvedBy", "gradedBy", "teacherId"}

\* C5: the ownership fields of a document keep the values given at creation:
\* no update changes createdBy, userId, approvedBy, gradedBy or teacherId.
C5_OwnershipFieldsImmutable ==
  [][\A p \in ApprovalScope :
       (docs[p] # NoDoc /\ docs'[p] # NoDoc) =>
         \A f \in OwnershipFields : Field(docs[p], f) = Field(docs'[p], f)]_vars

StaffRole(store, a) ==
  /\ store[MemberPath("c1", a)] # NoDoc
  /\ store[MemberPath("c1", a)].role \in {"admin", "teacher"}

\* The actor has no right on the approval but what a Member role gives.
RoleOnly(store, a) ==
  /\ store[TheApproval] # NoDoc
  /\ ~(store[TheClass] # NoDoc /\ store[TheClass].createdBy = a)
  /\ Field(store[TheApproval], "createdBy") # a
  /\ ~InSubjectTeachersOf(store[TheApproval], a)
  /\ store[TheApproval].approvedBy # a
  /\ store[TheApproval].gradedBy # a

\* C6: a grant or a revocation of a Member role decides the very next
\* evaluation: in the state after the role is taken away (record deleted or
\* role changed away from admin/teacher) the actor's update and delete of
\* the approval are denied, and in the state after it is granted they are
\* allowed.
C6_RoleChangeTakesEffectAtOnce ==
  [][\A a \in Users :
       (StaffRole(docs, a) # StaffRole(docs', a) /\ RoleOnly(docs', a)) =>
         \A op \in {"update", "delete"} :
           Allowed("current", docs', op, a, TheApproval, docs'[TheApproval])
             <=> StaffRole(docs', a)]_vars

\* An actor whose only qualification is a Member role is allowed to update
\* the approval.
C6_Witness ==
  \E a \in Users :
    /\ RoleOnly(docs, a) /\ StaffRole(docs, a)
    /\ docs[TheClass] # NoDoc
    /\ Allowed("current", docs, "update", a, TheApproval, docs[TheApproval])

Present(p) == p \in DOMAIN docs /\ docs[p] # NoDoc

\* C11: an update of users/{userId} is allowed only when the actor is userId
\* and the proposed document has no photoBase64 or one of size below
\* 1048576; an update by userId that carries a photoBase64 of size 1048576
\* or more is denied.
C11_UserUpdatePhotoLimit ==
  \A a \in Actors, u \in Users :
    Present(UserPath(u)) =>
      \A new \in Payloads(UserPath(u)) :
        Allowed(ruleSet, docs, "update", a, UserPath(u), new) =>
          /\ a = u
          /\ ("photoBase64" \in DOMAIN new => new.photoBase64 < MaxPhotoSize)

\* Documents whose update and delete the current rule set grants to a class
\* teacher.
TeacherManagedPaths ==
  MediaPaths \cup {SubPath("c1", "galleryApprovals", "g1"),
                   SubPath("c1", "completionApprovals", "a1")}

\* The actor is a Member of role teacher and nothing else with respect to
\* the document at p: not the class owner and not named in the document.
TeacherOnly(a, p) ==
  /\ HasMemberRole(a, "teacher")
  /\ ~ClassOwnedBy(a)
  /\ Present(p)
  /\ Field(docs[p], "createdBy") # a
  /\ Field(docs[p], "approvedBy") # a
  /\ Field(docs[p], "gradedBy") # a
  /\ a \notin SetField(docs[p], "subjectTeachers")

\* The actor is a Member of role teacher listed in the subject's teachers,
\* and neither the subject's creator nor the class owner.
SubjectTeacherOnly(a) ==
  /\ HasMemberRole(a, "teacher")
  /\ ~ClassOwnedBy(a)
  /\ Present(TheSubject)
  /\ docs[TheSubject].createdBy # a
  /\ docs[TheSubject].teachers # NullSet
  /\ a \in docs[TheSubject].teachers

\* C12: on the same store and the same request the two rule sets decide
\* differently: an actor whose only qualification is the Member role teacher
\* is allowed update and delete of gallery, albums, featuredImages,
\* galleryApprovals and completionApprovals documents under the current rule
\* set and denied under the legacy one; a teacher-for-subject is allowed the
\* subject update under the current rule set and denied under the legacy one.
C12_RuleSetsDiffer ==
  \A a \in Users :
    /\ \A p \in TeacherManagedPaths :
         TeacherOnly(a, p) =>
           \A op \in {"update", "delete"} :
             \A new \in RequestPayloads(op, p) :
               /\ Allowed("current", docs, op, a, p, new)
               /\ ~Allowed("legacy", docs, op, a, p, new)
    /\ SubjectTeacherOnly(a) =>
         \A new \in Payloads(TheSubject) :
           /\ Allowed("current", docs, "update", a, TheSubject, new)
           /\ ~Allowed("legacy", docs, "update", a, TheSubject, new)

\* A teacher with no other qualification and a gallery document of another
\* user's, in a class owned by someone else.
C12_Witness ==
  \E a \in Users :
    /\ TeacherOnly(a, SubPath("c1", "gallery", "i1"))
    /\ Present(TheClass)
    /\ Allowed("current", docs, "delete", a, SubPath("c1", "gallery", "i1"), NoDoc)
    /\ ~Allowed("legacy", docs, "delete", a, SubPath("c1", "gallery", "i1"), NoDoc)

\* The store with the document at q absent.
Without(q) == [docs EXCEPT ![q] = NoDoc]

\* The documents a decision on p reads: p itself, the class and the
\* actor's Member record.
LookedUp(p) == {p, ClassPath("c1")} \cup (MemberPaths \cap DOMAIN docs)

\* C13: a caller cannot tell a missing document from a forbidden one: when a
\* request is denied in a store where the target document exists, the same
\* request is also denied (never allowed) in the store where the target
\* document, or a document the rules look up, does not exist.
C13_MissingLooksLikeForbidden ==
  \A a \in Actors, p \in DOMAIN docs, op \in Ops :
    Present(p) =>
      \A new \in RequestPayloads(op, p) :
        ~Allowed(ruleSet, docs, op, a, p, new) =>
          \A q \in LookedUp(p) :
            ~Allowed(ruleSet, Without(q), op, a, p, new)

\* An authenticated actor is denied the delete of an existing document of
\* an existing class, and the class is one of the documents the rule looks
\* up.
C13_Witness ==
  \E a \in Users :
    /\ Present(TheClass)
    /\ Present(TheSubject)
    /\ ~Allowed(ruleSet, docs, "delete", a, TheSubject, NoDoc)
    /\ ~Allowed(ruleSet, Without(TheSubject), "delete", a, TheSubject, NoDoc)
    /\ ~Allowed(ruleSet, Without(TheClass), "delete", a, TheSubject, NoDoc)

TheComment == CommentPath("c1", "t1", "k1")

C15_MemberSelfOrOwner ==
  \A a \in Actors, m \in MemberPaths :
    /\ \A new \in Payloads(m) :
         Allowed(ruleSet, docs, "create", a, m, new)
           <=> (a # NoAuth /\ (ClassOwnedBy(a) \/ new.userId = a))
    /\ Present(m) =>
         \A op \in {"update", "delete"} :
           \A new \in RequestPayloads(op, m) :
             Allowed(ruleSet, docs, op, a, m, new)
               <=> (a # NoAuth /\ (ClassOwnedBy(a) \/ docs[m].userId = a))

\* A Member document kept under another user's key: the user named in
\* userId may delete it, the user of the key may not, the class owner may.
C15_Witness ==
  \E a \in Users, b \in Users, o \in Users :
    /\ a # b /\ o # a /\ o # b
    /\ ClassOwnedBy(o)
    /\ Present(MemberPath("c1", b))
    /\ docs[MemberPath("c1", b)].userId = a
    /\ Allowed(ruleSet, docs, "delete", a, MemberPath("c1", b), NoDoc)
    /\ ~Allowed(ruleSet, docs, "delete", b, MemberPath("c1", b), NoDoc)
    /\ Allowed(ruleSet, docs, "delete", o, MemberPath("c1", b), NoDoc)

\* The Member roles isAdmin() accepts under the deployed rule set.
AdminRoles == IF ruleSet = "current" THEN {"admin", "teacher"} ELSE {"admin"}

ClassAdmin(a) == \E r \in AdminRoles : HasMemberRole(a, r)

\* C16: the class owner and a class admin are allowed to create a gallery,
\* albums or featuredImages document although there is no `resource` for the
\* statement's comparison with resource.data.createdBy; an authenticated
\* actor who is neither is denied the create.
C16_MediaCreateWithoutResource ==
  \A a \in Users, p \in MediaPaths :
    ~Present(p) =>
      \A new \in Payloads(p) :
        Allowed(ruleSet, docs, "create", a, p, new)
          <=> (ClassOwnedBy(a) \/ ClassAdmin(a))

\* No gallery document exists; the class owner, a class admin and a third
\* user ask to create one.
C16_Witness ==
  \E o \in Users, m \in Users, x \in Users :
    /\ o # m /\ x # o /\ x # m
    /\ ClassOwnedBy(o) /\ ~ClassAdmin(o)
    /\ ClassAdmin(m)
    /\ ~Present(SubPath("c1", "gallery", "i1"))
    /\ \A new \in Payloads(SubPath("c1", "gallery", "i1")) :
         /\ Allowed(ruleSet, docs, "create", o, SubPath("c1", "gallery", "i1"), new)
         /\ Allowed(ruleSet, docs, "create", m, SubPath("c1", "gallery", "i1"), new)
         /\ ~Allowed(ruleSet, docs, "create", x, SubPath("c1", "gallery", "i1"), new)

\* The users a completed-assignment record names as approver, teacher or
\* grader.
NamedIn(d) == {d.approvedBy, d.teacherId, d.gradedBy} \ {Null}

\* C17: under the current rule set a document of
\* users/{userId}/completedAssignments is read iff the actor is userId,
\* created by every authenticated actor, and updated iff the actor equals
\* the stored approvedBy, teacherId or gradedBy; the owning user who is not
\* named in one of these fields is denied the update of their own record.
C17_CompletedAssignments ==
  \A a \in Actors, p \in CompletedPaths :
    /\ Allowed("current", docs, "read", a, p, NoDoc) <=> a = p[2]
    /\ \A new \in Payloads(p) :
         Allowed("current", docs, "create", a, p, new) <=> a # NoAuth
    /\ Present(p) =>
         \A new \in Payloads(p) :
           Allowed("current", docs, "update", a, p, new)
             <=> a \in NamedIn(docs[p])

\* A record of one user that names another user: the owning user reads it
\* and is denied the update, the named user updates it and is denied the
\* read.
C17_Witness ==
  \E p \in CompletedPaths, t \in Users :
    /\ ruleSet = "current"
    /\ Present(p)
    /\ t # p[2]
    /\ NamedIn(docs[p]) = {t}
    /\ Allowed(ruleSet, docs, "read", p[2], p, NoDoc)
    /\ ~Allowed(ruleSet, docs, "update", p[2], p, docs[p])
    /\ Allowed(ruleSet, docs, "update", t, p, docs[p])
    /\ ~Allowed(ruleSet, docs, "read", t, p, NoDoc)

TheRootMaterial == RootAiPath("m1")

\* The class named c exists and a is its createdBy.
OwnsClassNamed(a, c) ==
  /\ ClassPath(c) \in DOMAIN docs
  /\ docs[ClassPath(c)] # NoDoc
  /\ docs[ClassPath(c)].createdBy = a

\* C18: a root-level aiMaterials document is decided by the legacy rule set
\* alone: there update and delete are allowed iff the actor equals the
\* document's createdBy.uid or is the createdBy of the class named by the
\* document's classId; when that class does not exist the creator is still
\* allowed and every other actor is denied; under the current rule set the
\* root path matches no block and every request is denied.
C18_RootAiMaterials ==
  \A a \in Actors :
    /\ Present(TheRootMaterial) =>
         \A op \in {"update", "delete"} :
           \A new \in RequestPayloads(op, TheRootMaterial) :
             Allowed("legacy", docs, op, a, TheRootMaterial, new)
               <=> /\ a # NoAuth
                   /\ \/ docs[TheRootMaterial].createdByUid = a
                      \/ OwnsClassNamed(a, docs[TheRootMaterial].classId)
    /\ \A op \in Ops :
         \A new \in RequestPayloads(op, TheRootMaterial) :
           ~Allowed("current", docs, op, a, TheRootMaterial, new)

\* A root-level material that names a class that does not exist, while
\* another class has an owner: its creator deletes it, the owner of the
\* other class does not.
C18_Witness ==
  \E a \in Users, o \in Users :
    /\ a # o
    /\ Present(TheRootMaterial)
    /\ docs[TheRootMaterial].classId = "c9"
    /\ docs[TheRootMaterial].createdByUid = a
    /\ ClassOwnedBy(o)
    /\ Allowed("legacy", docs, "delete", a, TheRootMaterial, NoDoc)
    /\ ~Allowed("legacy", docs, "delete", o, TheRootMaterial, NoDoc)
    /\ ~Allowed("current", docs, "delete", a, TheRootMaterial, NoDoc)

\* C19: no privilege escalation through membership: in a class whose owner
\* does not act, no sequence of operations allowed to the other users leads
\* to a state where a Member record keyed by a non-owner's id carries the
\* role admin or teacher (so that isAdmin() or isTeacher() holds for that
\* user); only a write by the class owner gives such a role.
C19_NoEscalationThroughMembership ==
  \A x \in NonOwners : ~StaffRole(docs, x)

\* C20: no self-approval: an actor who is not the class owner and has no
\* Member record of role admin or teacher never reaches, by operations
\* allowed to non-owners, a CompletionApproval whose userId is the actor and
\* that the actor is allowed to update or delete.
C20_NoSelfApproval ==
  \A e \in NonOwners :
    (/\ ~StaffRole(docs, e)
     /\ Present(TheApproval)
     /\ docs[TheApproval].userId = e) =>
      \A op \in {"update", "delete"} :
        \A new \in RequestPayloads(op, TheApproval) :
          ~Allowed(ruleSet, docs, op, e, TheApproval, new)

\* The paths under classes/ and users/.
ClassAndUserPaths == {p \in DOMAIN docs : p[1] \in {"classes", "users"}}

\* C21: on every path under classes/ and users/ the current rule set is at
\* least as permissive as the legacy one: a request the legacy rules allow
\* is allowed by the current rules, for every store, actor, operation and
\* payload.
C21_CurrentAtLeastLegacy ==
  \A a \in Actors, p \in ClassAndUserPaths, op \in Ops :
    \A new \in RequestPayloads(op, p) :
      Allowed("legacy", docs, op, a, p, new)
        => Allowed("current", docs, op, a, p, new)

\* The class owner deletes another user's class material: allowed by the
\* legacy rules and by the current rules.
C21_Witness ==
  \E o \in Users :
    /\ ClassOwnedBy(o)
    /\ Present(SubPath("c1", "aiMaterials", "m1"))
    /\ docs[SubPath("c1", "aiMaterials", "m1")].createdByUid # o
    /\ Allowed("legacy", docs, "delete", o, SubPath("c1", "aiMaterials", "m1"), NoDoc)
    /\ Allowed("current", docs, "delete", o, SubPath("c1", "aiMaterials", "m1"), NoDoc)

\* ------------------------------------------------ ClassProvider: actions
\* switchClass calls that are between their first storage write and their
\* completion timer at the same time.
MaxSwitchCalls == 2

\* loadClasses calls (and loadActiveClassId calls) awaiting their result at
\* the same time.
MaxLoads == 1

RemoveAt(s, i) == SubSeq(s, 1, i - 1) \o SubSeq(s, i + 1, Len(s))

\* classes.find(c => c.id === classId)
FindClass(list, classId) ==
  IF \E k \in 1..Len(list) : list[k].id = classId
  THEN list[CHOOSE k \in 1..Len(list) :
              /\ list[k].id = classId
              /\ \A j \in 1..(k - 1) : list[j].id # classId]
  ELSE NoClass

\* currentClass?.id
IdOf(c) == IF c = NoClass THEN Undef ELSE c.id

\* The loadClasses effect starts: the closure keeps the currentClass of the
\* render the effect belongs to.
StartLoadClasses(p) ==
  [p EXCEPT !.loadCalls = Append(@, [currentClassNull |-> p.currentClass = NoClass]),
            !.refreshChanged = FALSE]

\* The loadClasses effect with no user: setClasses([]); setCurrentClass(null)
LoadClassesNoUser(p) ==
  [p EXCEPT !.classes = <<>>, !.currentClass = NoClass,
            !.refreshChanged = FALSE]

\* The user logs in: the provider renders and both effects start.
Login ==
  /\ ~provider.user
  /\ Len(provider.loadCalls) < MaxLoads
  /\ provider.idReads < MaxLoads
  /\ provider' = [StartLoadClasses(provider) EXCEPT
                    !.user = TRUE,
                    !.idReads = @ + 1,
                    !.rendered = Snapshot(provider)]
  /\ UNCHANGED <<docs, ruleSet, screen>>

\* The user logs out: the provider renders and loadClasses clears the state.
Logout ==
  /\ provider.user
  /\ provider' = [LoadClassesNoUser(provider) EXCEPT
                    !.user = FALSE,
                    !.rendered = Snapshot(provider)]
  /\ UNCHANGED <<docs, ruleSet, screen>>

\* The provider re-renders after a state change; the loadClasses effect runs
\* when refreshTrigger changed.
Render ==
  /\ provider.rendered # Snapshot(provider) \/ provider.refreshChanged
  /\ (provider.refreshChanged /\ provider.user)
       => Len(provider.loadCalls) < MaxLoads
  /\ LET p == [provider EXCEPT !.rendered = Snapshot(provider)]
     IN provider' = IF ~provider.refreshChanged THEN p
                    ELSE IF provider.user THEN StartLoadClasses(p)
                    ELSE LoadClassesNoUser(p)
  /\ UNCHANGED <<docs, ruleSet, screen>>

\* loadActiveClassId resumes after AsyncStorage.getItem(ACTIVE_CLASS_KEY).
LoadActiveClassIdDone ==
  /\ provider.idReads > 0
  /\ \E ok \in BOOLEAN :
       provider' =
         [provider EXCEPT
            !.idReads = @ - 1,
            !.lastActiveClassId =
               IF ok /\ provider.storedActiveClassId # Null
               THEN provider.storedActiveClassId ELSE @]
  /\ UNCHANGED <<docs, ruleSet, screen>>

\* The class loadClasses makes current, given the fetched list.
ChosenClass(p, call, userClasses) ==
  LET savedClassId == p.lastActiveClassId
      savedClass == FindClass(userClasses, savedClassId)
  IN IF Len(userClasses) = 0 THEN p.currentClass
     ELSE IF savedClassId # Null THEN
       (IF savedClass # NoClass /\ call.currentClassNull THEN savedClass
        ELSE IF call.currentClassNull THEN userClasses[1]
        ELSE p.currentClass)
     ELSE IF call.currentClassNull THEN userClasses[1]
     ELSE p.currentClass

\* loadClasses resumes after getUserClasses(), which returns the list or
\* throws.
LoadClassesDone(i) ==
  /\ i \in 1..Len(provider.loadCalls)
  /\ \E ok \in BOOLEAN :
       LET userClasses == UserClassesList(provider.serverClasses)
           p == [provider EXCEPT !.loadCalls = RemoveAt(@, i)]
       IN provider' =
            IF ok
            THEN [p EXCEPT !.classes = userClasses,
                           !.currentClass =
                              ChosenClass(provider, provider.loadCalls[i],
                                          userClasses)]
            ELSE p
  /\ UNCHANGED <<docs, ruleSet, screen>>

\* switchClass(classId), up to its first await.  The guard, the class list
\* and the current class are those of the render the callback comes from.
\* A call that returns at once (false: a switch is in progress or the class
\* is not found; true: the class is already current) changes nothing.  A
\* call that goes on notes, for the record, whether its storage write
\* changed the persisted or the remembered active class id.
SwitchClass(classId) ==
  LET r == provider.rendered
      foundClass == FindClass(r.classes, classId)
  IN /\ provider' =
          IF r.isClassSwitching THEN
            provider
          ELSE IF foundClass = NoClass THEN
            provider
          ELSE IF IdOf(r.currentClass) # classId THEN
            [provider EXCEPT
               !.isClassSwitching = TRUE,
               !.switchCalls =
                  Append(@, [classId |-> classId,
                             foundClass |-> foundClass,
                             pc |-> "activeKey",
                             changed |-> FALSE])]
          ELSE provider
     /\ (~r.isClassSwitching /\ foundClass # NoClass
           /\ IdOf(r.currentClass) # classId)
          => Len(provider.switchCalls) < MaxSwitchCalls
     /\ UNCHANGED <<docs, ruleSet, screen>>

\* await AsyncStorage.setItem(ACTIVE_CLASS_KEY, classId) returns or throws.
SwitchStoreActiveKey(i) ==
  /\ i \in 1..Len(provider.switchCalls)
  /\ provider.switchCalls[i].pc = "activeKey"
  /\ \E ok \in BOOLEAN :
       provider' =
         IF ok
         THEN [provider EXCEPT
                 !.storedActiveClassId = provider.switchCalls[i].classId,
                 !.lastActiveClassId = provider.switchCalls[i].classId,
                 !.switchCalls[i].pc = "refreshKey",
                 !.switchCalls[i].changed =
                    \/ provider.storedActiveClassId # provider.switchCalls[i].classId
                    \/ provider.lastActiveClassId # provider.switchCalls[i].classId]
         ELSE [provider EXCEPT
                 !.isClassSwitching = FALSE,
                 !.switchCalls = RemoveAt(@, i)]
  /\ UNCHANGED <<docs, ruleSet, screen>>

\* SwitchStoreRefreshKey whose catch block leaves isClassSwitching as it is
SwitchStoreRefreshKeyNoReset(i) ==
  /\ i \in 1..Len(provider.switchCalls)
  /\ provider.switchCalls[i].pc = "refreshKey"
  /\ \E ok \in BOOLEAN :
       provider' =
         IF ok
         THEN [provider EXCEPT
                 !.currentClass = provider.switchCalls[i].foundClass,
                 !.switchCalls[i].pc = "timer"]
         ELSE [provider EXCEPT
                 !.switchCalls = RemoveAt(@, i)]
  /\ UNCHANGED <<docs, ruleSet, screen>>

\* await AsyncStorage.setItem(LAST_REFRESH_KEY, ...) returns or throws; on
\* return the class is made current and the completion timer is set.
SwitchStoreRefreshKey(i) ==
  /\ i \in 1..Len(provider.switchCalls)
  /\ provider.switchCalls[i].pc = "refreshKey"
  /\ \E ok \in BOOLEAN :
       provider' =
         IF ok
         THEN [provider EXCEPT
                 !.currentClass = provider.switchCalls[i].foundClass,
                 !.switchCalls[i].pc = "timer"]
         ELSE [provider EXCEPT
                 !.isClassSwitching = FALSE,
                 !.switchCalls = RemoveAt(@, i)]
  /\ UNCHANGED <<docs, ruleSet, screen>>

\* The setTimeout callback of switchClass.
SwitchTimer(i) ==
  /\ i \in 1..Len(provider.switchCalls)
  /\ provider.switchCalls[i].pc = "timer"
  /\ provider' = [provider EXCEPT
                    !.isClassSwitching = FALSE,
                    !.refreshChanged = TRUE,
                    !.switchCalls = RemoveAt(@, i)]
  /\ UNCHANGED <<docs, ruleSet, screen>>

\* createClass / joinClass succeeded on the server: the class is among the
\* user's classes and refreshTrigger is incremented.
ClassAdded(c) ==
  /\ \A d \in provider.serverClasses : d.id # c.id
  /\ provider' = [provider EXCEPT
                    !.serverClasses = @ \cup {c},
                    !.refreshChanged = TRUE]

\* handleCreateClass(classData); a failed or throwing createClass changes
\* nothing but `loading`.
HandleCreateClass(c) ==
  /\ provider.user
  /\ ClassAdded(c)
  /\ UNCHANGED <<docs, ruleSet, screen>>

\* handleJoinClass(classCode)
HandleJoinClass(c) ==
  /\ provider.user
  /\ ClassAdded(c)
  /\ UNCHANGED <<docs, ruleSet, screen>>

\* refreshClasses() and forceRefresh()
RefreshClasses ==
  /\ ~provider.refreshChanged
  /\ provider' = [provider EXCEPT !.refreshChanged = TRUE]
  /\ UNCHANGED <<docs, ruleSet, screen>>

\* { ...c, ...settings }
Merge(c, settings) ==
  [c EXCEPT !.requireCompletionApproval = settings]

\* updateSettings(classId, settings) after updateClassSettings reported
\* success; a failure or an exception changes nothing.
UpdateSettings(classId, settings) ==
  /\ \E c \in provider.serverClasses :
       c.id = classId /\ c.requireCompletionApproval # settings
  /\ provider' =
       [provider EXCEPT
          !.serverClasses =
             {IF c.id = classId THEN Merge(c, settings) ELSE c : c \in @},
          !.currentClass =
             IF @ # NoClass /\ @.id = classId THEN Merge(@, settings) ELSE @,
          !.classes =
             [k \in 1..Len(@) |->
                IF @[k].id = classId THEN Merge(@[k], settings) ELSE @[k]]]
  /\ UNCHANGED <<docs, ruleSet, screen>>

\* The user leaves a class or is removed from it on the server.
ClassRemoved(classId) ==
  /\ provider' = [provider EXCEPT
                    !.serverClasses = {c \in @ : c.id # classId}]
  /\ \E c \in provider.serverClasses : c.id = classId
  /\ UNCHANGED <<docs, ruleSet, screen>>

\* The application starts with any persisted active class id and any
\* classes of the user on the server.
InitProvider ==
  /\ docs = EmptyStore({})
  /\ ruleSet = "current"
  /\ screen = ScreenInit
  /\ \E stored \in ClassIds \cup {Null}, S \in ClassSets :
       provider = [ProviderInit EXCEPT !.storedActiveClassId = stored,
                                       !.serverClasses = S]

SwitchStep(i) ==
  \/ SwitchStoreActiveKey(i)
  \/ SwitchStoreRefreshKey(i)
  \/ SwitchTimer(i)

\* Login, logout and the upkeep of the class list, with no class switch.
NextClasses ==
  \/ Login
  \/ Logout
  \/ Render
  \/ LoadActiveClassIdDone
  \/ \E i \in 1..MaxLoads : LoadClassesDone(i)
  \/ \E c \in ClassObjs : HandleCreateClass(c)
  \/ \E c \in ClassObjs : HandleJoinClass(c)
  \/ RefreshClasses
  \/ \E classId \in ClassIds, settings \in BOOLEAN :
       UpdateSettings(classId, settings)
  \/ \E classId \in ClassIds : ClassRemoved(classId)

SpecClasses == InitProvider /\ [][NextClasses]_vars

\* Login and class switching on a server whose classes do not change.
NextSwitch ==
  \/ Login
  \/ Render
  \/ LoadActiveClassIdDone
  \/ \E i \in 1..MaxLoads : LoadClassesDone(i)
  \/ \E classId \in ClassIds : SwitchClass(classId)
  \/ \E i \in 1..MaxSwitchCalls : SwitchStep(i)

SpecSwitch == InitProvider /\ [][NextSwitch]_vars

\* An awaited AsyncStorage write settles and an armed timer fires.
FairSwitch == \A i \in 1..MaxSwitchCalls : WF_vars(SwitchStep(i))

SpecSwitchFair == InitProvider /\ [][NextSwitch]_vars /\ FairSwitch

\* C22: class switches are mutually exclusive: while a switchClass call to a
\* different class is between its start and its completion, no other
\* switchClass call goes on to write the active class id and to change
\* currentClass, also when two calls are issued before the provider
\* re-renders.
C22_SwitchMutualExclusion == Len(provider.switchCalls) <= 1

\* C23: every switchClass call that sets isClassSwitching to true is
\* followed by isClassSwitching being false again, after the completion
\* timer on success and at once when a storage write fails; isClassSwitching
\* never stays true forever.
C23_SwitchingEnds == provider.isClassSwitching ~> ~provider.isClassSwitching

\* A switch has made its class current and waits for its completion timer
\* with isClassSwitching still true.
C23_Witness ==
  /\ provider.isClassSwitching
  /\ \E i \in 1..Len(provider.switchCalls) :
       /\ provider.switchCalls[i].pc = "timer"
       /\ provider.currentClass = provider.switchCalls[i].foundClass

\* The switchClass call at position i returns false from its catch block in
\* this step.
SwitchFails(i) ==
  /\ i \in 1..Len(provider.switchCalls)
  /\ provider.switchCalls[i].pc \in {"activeKey", "refreshKey"}
  /\ provider'.switchCalls = RemoveAt(provider.switchCalls, i)

\* C26: a failing switchClass changes nothing: when a storage write throws,
\* the call returns false and currentClass, the remembered last active class
\* id and the persisted active class id keep the values they had before the
\* call, so the persisted id never names a class that was not switched to.
C26_FailedSwitchChangesNothing ==
  [][\A i \in 1..MaxSwitchCalls :
       SwitchFails(i) =>
         /\ ~provider.switchCalls[i].changed
         /\ provider'.currentClass = provider.currentClass
         /\ provider'.lastActiveClassId = provider.lastActiveClassId
         /\ provider'.storedActiveClassId = provider.storedActiveClassId]_vars

\* The ids of the classes getUserClasses() returns.
ServerClassIds == {c.id : c \in provider.serverClasses}

\* C24: after a login with a persisted active class id that names one of the
\* user's classes, the class that becomes current is that saved class and
\* not the first class of the list, whichever of the storage read and the
\* class fetch completes first.
C24_SavedClassRestored ==
  [][(/\ provider.currentClass = NoClass
      /\ provider'.currentClass # NoClass
      /\ provider.storedActiveClassId \in ServerClassIds)
       => provider'.currentClass.id = provider.storedActiveClassId]_vars

\* C25: currentClass is either null or an element of classes with the same
\* id, in every reachable state of ClassProvider.
C25_CurrentClassInClasses ==
  \/ provider.currentClass = NoClass
  \/ \E k \in 1..Len(provider.classes) :
       provider.classes[k].id = provider.currentClass.id

\* ---- the assignment details screen (unnamed/part_000): actions ----

\* The most calls of one kind the screen has in flight.
MaxScreenCalls == 2

\* The most comment subscriptions opened in one behaviour.
MaxSubscriptions == 3

Min(a, b) == IF a < b THEN a ELSE b

\* n assets of a picker result
Assets(n) == [k \in 1..n |-> "photo"]

\* A ClassProvider whose user is logged in with the one class c, current.
ProviderWithClass(c) ==
  [ProviderInit EXCEPT
     !.user = TRUE,
     !.classes = <<c>>,
     !.currentClass = c,
     !.rendered = [classes |-> <<c>>, currentClass |-> c,
                   isClassSwitching |-> FALSE],
     !.serverClasses = {c}]

\* An assignment as loadAssignmentDetails puts it in the screen's state.
LoadedAssignment(status, groups) ==
  [id |-> "t1", status |-> status, pending |-> FALSE, approved |-> FALSE,
   groups |-> groups]

\* loadComments: subscribeToAssignmentComments attaches a listener and its
\* unsubscribe function is stored in the ref, over the one stored before.
LoadComments(s) ==
  IF provider.currentClass = NoClass \/ s.assignment = NoAssignment THEN s
  ELSE [s EXCEPT !.subscribed = @ + 1,
                 !.listeners = @ \cup {s.subscribed + 1},
                 !.commentsUnsubscribe = s.subscribed + 1]

\* The two effects that run when the assignment object changed.  The one on
\* [assignment, navigation, currentClass] calls loadCompletions and
\* checkClassRequiresApproval when there is an assignment and a current
\* class; the one on [assignment, currentClass] calls loadComments and
\* loadCompletions when there is an assignment (loadCompletions returns at
\* once without a current class).  Neither has a cleanup.
AssignmentEffect(s) ==
  IF s.assignment # NoAssignment /\ provider.currentClass # NoClass
  THEN LoadComments([s EXCEPT !.approvalChecks = @ + 1,
                              !.completionLoads = @ + 2])
  ELSE s

\* The exploration starts the effects only within the bounds.
EffectsCanStart ==
  /\ screen.approvalChecks < MaxScreenCalls
  /\ screen.completionLoads + 2 <= MaxScreenCalls
  /\ screen.subscribed < MaxSubscriptions

\* checkClassRequiresApproval resumes after getClassDetails(currentClass.id),
\* which returns the class or throws.
CheckClassRequiresApprovalDone ==
  /\ screen.approvalChecks > 0
  /\ \E ok \in BOOLEAN :
       screen' =
         [screen EXCEPT
            !.approvalChecks = @ - 1,
            !.requiresApproval =
               IF ok /\ screen.mounted
               THEN /\ provider.currentClass # NoClass
                    /\ provider.currentClass.requireCompletionApproval
               ELSE @]
  /\ UNCHANGED <<docs, ruleSet, provider>>

\* loadCompletions resumes after its query for the user's approval requests
\* of the assignment: one of them is pending, or none is.
LoadCompletionsDone ==
  /\ screen.completionLoads > 0
  /\ \E pending \in BOOLEAN :
       screen' = [screen EXCEPT
                    !.completionLoads = @ - 1,
                    !.hasPendingApproval =
                       IF pending /\ screen.mounted THEN TRUE ELSE @]
  /\ UNCHANGED <<docs, ruleSet, provider>>

\* The status button is shown and enabled.
StatusButtonEnabled(r) ==
  /\ r.assignment # NoAssignment
  /\ ~(r.assignment.pending /\ ~r.assignment.approved)
  /\ ~r.hasPendingApproval
  /\ ~r.photoSelectionVisible

HandleToggleStatusNoModal ==
  LET r == screen
  IN /\ screen.mounted
     /\ StatusButtonEnabled(r)
     /\ Len(screen.toggleCalls) < MaxScreenCalls
     /\ screen' =
          IF r.assignment.status = "FINISHED" THEN
            [screen EXCEPT !.toggleCalls = Append(@, [newStatus |-> "ONGOING"])]
          ELSE
            [screen EXCEPT !.toggleCalls = Append(@, [newStatus |-> "FINISHED"])]
     /\ UNCHANGED <<docs, ruleSet, provider>>

\* handleToggleStatus, up to its await of toggleAssignmentStatus.
HandleToggleStatus ==
  LET r == screen
  IN /\ screen.mounted
     /\ StatusButtonEnabled(r)
     /\ Len(screen.toggleCalls) < MaxScreenCalls
     /\ screen' =
          IF r.assignment.status = "FINISHED" THEN
            [screen EXCEPT !.toggleCalls = Append(@, [newStatus |-> "ONGOING"])]
          ELSE IF r.requiresApproval /\ ~r.hasPendingApproval THEN
            [screen EXCEPT !.photoSelectionVisible = TRUE]
          ELSE
            [screen EXCEPT !.toggleCalls = Append(@, [newStatus |-> "FINISHED"])]
     /\ UNCHANGED <<docs, ruleSet, provider>>

\* What toggleAssignmentStatus resolves to.
ToggleResults == {"success", "requiresApproval", "error"}

\* handleToggleStatus resumes with the result of toggleAssignmentStatus.
HandleToggleStatusDone(i) ==
  /\ i \in 1..Len(screen.toggleCalls)
  /\ \E result \in ToggleResults :
       LET call == screen.toggleCalls[i]
           s == [screen EXCEPT !.toggleCalls = RemoveAt(@, i)]
       IN /\ result = "success" => EffectsCanStart
          /\ screen' =
               IF ~screen.mounted THEN s
               ELSE IF result = "success" /\ s.assignment # NoAssignment THEN
                 AssignmentEffect([s EXCEPT !.assignment.status = call.newStatus])
               ELSE IF result = "requiresApproval" /\ call.newStatus = "FINISHED" THEN
                 [s EXCEPT !.photoSelectionVisible = TRUE]
               ELSE s
  /\ UNCHANGED <<docs, ruleSet, provider>>

\* The picker buttons are shown: the photo modal is open and fewer than five
\* photos are selected.
PickerButtonsShown(r) ==
  r.photoSelectionVisible /\ Len(r.selectedPhotos) < MaxPhotos

\* takePhoto, up to its await of launchCamera.
TakePhoto ==
  LET r == screen
  IN /\ screen.mounted
     /\ PickerButtonsShown(r)
     /\ Len(screen.pickerCalls) < MaxScreenCalls
     /\ screen' =
          IF Len(r.selectedPhotos) >= MaxPhotos THEN screen
          ELSE [screen EXCEPT !.pickerCalls = Append(@, [limit |-> 1])]
     /\ UNCHANGED <<docs, ruleSet, provider>>

\* pickPhoto, up to its await of launchImageLibrary.
PickPhoto ==
  LET r == screen
  IN /\ screen.mounted
     /\ PickerButtonsShown(r)
     /\ Len(screen.pickerCalls) < MaxScreenCalls
     /\ screen' =
          IF Len(r.selectedPhotos) >= MaxPhotos THEN screen
          ELSE [screen EXCEPT
                  !.pickerCalls =
                     Append(@, [limit |-> Min(MaxPhotos - Len(r.selectedPhotos),
                                              MaxPhotos)])]
     /\ UNCHANGED <<docs, ruleSet, provider>>

\* takePhoto / pickPhoto resume: the picker was cancelled, failed, or returns
\* between one and selectionLimit assets, which are appended to the photos
\* selected by then.  The exploration stops at MaxPhotos * MaxScreenCalls
\* photos.
PickerDone(i) ==
  /\ i \in 1..Len(screen.pickerCalls)
  /\ \E n \in 0..screen.pickerCalls[i].limit :
       /\ Len(screen.selectedPhotos) + n <= MaxPhotos * MaxScreenCalls
       /\ screen' = [screen EXCEPT
                       !.pickerCalls = RemoveAt(@, i),
                       !.selectedPhotos = @ \o Assets(n)]
  /\ UNCHANGED <<docs, ruleSet, provider>>

\* removePhoto(indexToRemove), with JavaScript's index indexToRemove = index - 1
RemovePhoto(index) ==
  /\ screen.mounted
  /\ screen.photoSelectionVisible
  /\ index \in 1..Len(screen.selectedPhotos)
  /\ screen' = [screen EXCEPT
                  !.selectedPhotos =
                     IF index <= Len(@) THEN RemoveAt(@, index) ELSE @]
  /\ UNCHANGED <<docs, ruleSet, provider>>

\* cancelPhotoSubmission
CancelPhotoSubmission ==
  /\ screen.mounted
  /\ screen.photoSelectionVisible
  /\ screen' = [screen EXCEPT !.photoSelectionVisible = FALSE,
                              !.selectedPhotos = <<>>]
  /\ UNCHANGED <<docs, ruleSet, provider>>

\* submitCompletionWithPhoto, up to its await of submitCompletionForApproval.
SubmitCompletionWithPhoto ==
  LET r == screen
  IN /\ screen.mounted
     /\ r.photoSelectionVisible
     /\ Len(r.selectedPhotos) > 0
     /\ ~r.isSubmittingCompletion
     /\ screen.submitCalls < MaxScreenCalls
     /\ screen' =
          IF \/ Len(r.selectedPhotos) = 0
             \/ provider.currentClass = NoClass
             \/ r.assignment = NoAssignment
          THEN screen
          ELSE [screen EXCEPT !.isSubmittingCompletion = TRUE,
                              !.submitCalls = @ + 1]
     /\ UNCHANGED <<docs, ruleSet, provider>>

\* submitCompletionWithPhoto resumes: the request was stored, refused, or the
\* call threw.
SubmitCompletionDone ==
  /\ screen.submitCalls > 0
  /\ \E success \in BOOLEAN :
       LET s == [screen EXCEPT !.submitCalls = @ - 1,
                               !.isSubmittingCompletion = FALSE]
       IN screen' = IF success
                    THEN [s EXCEPT !.hasPendingApproval = TRUE,
                                   !.selectedPhotos = <<>>,
                                   !.successAlert = TRUE]
                    ELSE s
  /\ UNCHANGED <<docs, ruleSet, provider>>

\* The OK button of the success alert: setPhotoSelectionVisible(false)
SuccessAlertOk ==
  /\ screen.successAlert
  /\ screen' = [screen EXCEPT !.successAlert = FALSE,
                              !.photoSelectionVisible = FALSE]
  /\ UNCHANGED <<docs, ruleSet, provider>>

ScreenClass(approval) == [id |-> "a", requireCompletionApproval |-> approval]

\* The screen shows an ongoing assignment of a class that requires approval,
\* with the class details read.
InitPhotos ==
  /\ docs = EmptyStore({})
  /\ ruleSet = "current"
  /\ provider = ProviderWithClass(ScreenClass(TRUE))
  /\ screen = [ScreenInit EXCEPT
                 !.mounted = TRUE,
                 !.assignment = LoadedAssignment("ONGOING", <<>>),
                 !.requiresApproval = TRUE,
                 !.subscribed = 1,
                 !.listeners = {1},
                 !.commentsUnsubscribe = 1]

NextPhotos ==
  \/ HandleToggleStatus
  \/ TakePhoto
  \/ PickPhoto
  \/ \E i \in 1..MaxScreenCalls : PickerDone(i)
  \/ \E index \in 1..(2 * MaxPhotos) : RemovePhoto(index)
  \/ CancelPhotoSubmission
  \/ SubmitCompletionWithPhoto
  \/ SubmitCompletionDone
  \/ SuccessAlertOk

SpecPhotos == InitPhotos /\ [][NextPhotos]_vars

\* C27: the list of selected evidence photos never holds more than 5 photos.
C27_AtMostFivePhotos == Len(screen.selectedPhotos) <= MaxPhotos

\* The screen has loaded an assignment of the current class; the read of
\* the class details, started with it, has not returned yet.
InitToggle ==
  /\ docs = EmptyStore({})
  /\ ruleSet = "current"
  /\ \E approval \in BOOLEAN : provider = ProviderWithClass(ScreenClass(approval))
  /\ \E status \in AssignmentStatus :
       screen = [ScreenInit EXCEPT
                   !.mounted = TRUE,
                   !.assignment = LoadedAssignment(status, <<>>),
                   !.approvalChecks = 1,
                   !.completionLoads = 2,
                   !.subscribed = 1,
                   !.listeners = {1},
                   !.commentsUnsubscribe = 1]

NextToggle ==
  \/ CheckClassRequiresApprovalDone
  \/ LoadCompletionsDone
  \/ HandleToggleStatus
  \/ \E i \in 1..MaxScreenCalls : HandleToggleStatusDone(i)
  \/ TakePhoto
  \/ \E i \in 1..MaxScreenCalls : PickerDone(i)
  \/ CancelPhotoSubmission
  \/ SubmitCompletionWithPhoto
  \/ SubmitCompletionDone
  \/ SuccessAlertOk

SpecToggle == InitToggle /\ [][NextToggle]_vars

\* handleToggleStatus is called on an assignment that is not FINISHED and
\* has no pending approval.
ToggleToFinished ==
  /\ HandleToggleStatus
  /\ screen.assignment.status # "FINISHED"
  /\ ~screen.hasPendingApproval

\* The photo modal opens, the assignment is left alone and
\* toggleAssignmentStatus is not called.
OpensModalOnly ==
  /\ screen'.photoSelectionVisible
  /\ screen'.assignment = screen.assignment
  /\ screen'.toggleCalls = screen.toggleCalls

\* The local status becomes FINISHED in this step.
BecomesFinished ==
  /\ screen.assignment.status # "FINISHED"
  /\ screen'.assignment.status = "FINISHED"

\* A call of toggleAssignmentStatus(id, FINISHED) returns in this step.
ToggleToFinishedReturns ==
  \E i \in 1..Len(screen.toggleCalls) :
    /\ screen.toggleCalls[i].newStatus = "FINISHED"
    /\ screen'.toggleCalls = RemoveAt(screen.toggleCalls, i)

\* The status is set only by a returning toggle; a pending approval stays
\* pending on the screen and no toggle is issued while it is.
StatusAndPendingRules ==
  /\ BecomesFinished => ToggleToFinishedReturns
  /\ screen.hasPendingApproval => screen'.hasPendingApproval
  /\ Len(screen'.toggleCalls) > Len(screen.toggleCalls)
       => ~screen.hasPendingApproval

Me == "u1"

\* members.filter(m => m.userId !== uid)
FilterOut(members, uid) == SelectSeq(members, LAMBDA m : m # uid)

\* How many times uid is among the members.
CountIn(members, uid) == Len(SelectSeq(members, LAMBDA m : m = uid))

\* findUserInGroups: the index of the first group that has the user, 0 for
\* null.
FindUserInGroups(groups, uid) ==
  IF \E k \in 1..Len(groups) : CountIn(groups[k], uid) > 0
  THEN CHOOSE k \in 1..Len(groups) :
         /\ CountIn(groups[k], uid) > 0
         /\ \A j \in 1..(k - 1) : CountIn(groups[j], uid) = 0
  ELSE 0

\* The group objects after handleJoinGroup's loop and push.  updatedGroups
\* is a copy of the array only: the objects are those of assignment.groups.
JoinedGroups(groups, groupIndex, uid) ==
  [k \in 1..Len(groups) |->
     IF k = groupIndex THEN Append(FilterOut(groups[k], uid), uid)
     ELSE FilterOut(groups[k], uid)]

\* The group objects after handleLeaveGroup's filter.
LeftGroups(groups, groupIndex, uid) ==
  [groups EXCEPT ![groupIndex] = FilterOut(@, uid)]

\* "Join a Group": setShowJoinGroupModal(true), shown when canJoinGroup.
OpenJoinGroupModal ==
  /\ screen.mounted
  /\ screen.assignment # NoAssignment
  /\ FindUserInGroups(screen.assignment.groups, Me) = 0
  /\ ~screen.showJoinGroupModal
  /\ screen' = [screen EXCEPT !.showJoinGroupModal = TRUE]
  /\ UNCHANGED <<docs, ruleSet, provider>>

\* onRequestClose of the group selection modal
CloseJoinGroupModal ==
  /\ screen.mounted
  /\ screen.showJoinGroupModal
  /\ screen' = [screen EXCEPT !.showJoinGroupModal = FALSE]
  /\ UNCHANGED <<docs, ruleSet, provider>>

\* handleJoinGroup(groupIndex), up to its await: the group objects of the
\* screen's assignment are changed in place.  The call keeps the assignment
\* as it found it.
HandleJoinGroup(groupIndex) ==
  /\ screen.mounted
  /\ screen.showJoinGroupModal
  /\ ~screen.isJoining
  /\ screen.assignment # NoAssignment
  /\ groupIndex \in 1..Len(screen.assignment.groups)
  /\ Len(screen.joinCalls) < MaxScreenCalls
  /\ screen' =
       [screen EXCEPT
          !.isJoining = TRUE,
          !.assignment.groups = JoinedGroups(@, groupIndex, Me),
          !.joinCalls = Append(@, [kind |-> "join",
                                   groupIndex |-> groupIndex,
                                   assignment |-> screen.assignment])]
  /\ UNCHANGED <<docs, ruleSet, provider>>

\* The "Leave" button of handleLeaveGroup's confirmation, up to its await.
HandleLeaveGroup ==
  /\ screen.mounted
  /\ ~screen.showJoinGroupModal
  /\ screen.assignment # NoAssignment
  /\ FindUserInGroups(screen.assignment.groups, Me) # 0
  /\ Len(screen.joinCalls) < MaxScreenCalls
  /\ LET groupIndex == FindUserInGroups(screen.assignment.groups, Me)
     IN screen' =
          [screen EXCEPT
             !.isJoining = TRUE,
             !.assignment.groups = LeftGroups(@, groupIndex, Me),
             !.joinCalls = Append(@, [kind |-> "leave",
                                      groupIndex |-> groupIndex,
                                      assignment |-> screen.assignment])]
  /\ UNCHANGED <<docs, ruleSet, provider>>

\* handleJoinGroup / handleLeaveGroup resume after updateAssignment: on
\* success setAssignment(updatedAssignment), whose groups are the shared
\* group objects.
JoinGroupDone(i, success) ==
  /\ i \in 1..Len(screen.joinCalls)
  /\ success => EffectsCanStart
  /\ LET call == screen.joinCalls[i]
         s == [screen EXCEPT !.joinCalls = RemoveAt(@, i),
                             !.isJoining = FALSE]
     IN screen' =
          IF success /\ screen.assignment # NoAssignment
          THEN AssignmentEffect(
                 [s EXCEPT
                    !.assignment = [call.assignment EXCEPT
                                      !.groups = screen.assignment.groups],
                    !.showJoinGroupModal =
                       IF call.kind = "join" THEN FALSE ELSE @])
          ELSE s
  /\ UNCHANGED <<docs, ruleSet, provider>>

HandleJoinGroupDone(i) == \E success \in BOOLEAN : JoinGroupDone(i, success)

\* The members a group has when the screen opens.
OtherMembers == {<<>>, <<"u2">>}

\* The screen shows a group assignment with two groups, neither with the
\* user; the reads started when the assignment was loaded have returned.
InitGroups ==
  /\ docs = EmptyStore({})
  /\ ruleSet = "current"
  /\ provider = ProviderWithClass(ScreenClass(FALSE))
  /\ \E g1 \in OtherMembers, g2 \in OtherMembers :
       screen = [ScreenInit EXCEPT
                   !.mounted = TRUE,
                   !.assignment = LoadedAssignment("ONGOING", <<g1, g2>>),
                   !.subscribed = 1,
                   !.listeners = {1},
                   !.commentsUnsubscribe = 1]

NextGroups ==
  \/ OpenJoinGroupModal
  \/ CloseJoinGroupModal
  \/ \E groupIndex \in 1..2 : HandleJoinGroup(groupIndex)
  \/ HandleLeaveGroup
  \/ \E i \in 1..MaxScreenCalls : HandleJoinGroupDone(i)
  \/ CheckClassRequiresApprovalDone
  \/ LoadCompletionsDone

SpecGroups == InitGroups /\ [][NextGroups]_vars

\* The user is a member of group groupIndex exactly once and of no other
\* group.
MemberOnlyOf(groups, groupIndex) ==
  \A k \in 1..Len(groups) :
    CountIn(groups[k], Me) = (IF k = groupIndex THEN 1 ELSE 0)

\* C29: after handleJoinGroup(groupIndex) succeeds the user is a member of
\* the selected group exactly once and of no other group; when the update
\* fails or throws, the groups of the assignment held by the screen are the
\* same as before the call.
C29_JoinGroupAllOrNothing ==
  [][\A i \in 1..MaxScreenCalls :
       /\ (JoinGroupDone(i, TRUE) /\ screen.joinCalls[i].kind = "join")
            => MemberOnlyOf(screen'.assignment.groups,
                            screen.joinCalls[i].groupIndex)
       /\ (JoinGroupDone(i, FALSE) /\ screen.joinCalls[i].kind = "join")
            => screen'.assignment.groups
                 = screen.joinCalls[i].assignment.groups]_vars

\* ---- the assignment details screen: comment subscription ----

\* The cleanup of the effect on [assignmentId, documentId, assignments]: the
\* unsubscribe function held by the ref is called; the ref keeps it.
CommentsCleanup(s) ==
  [s EXCEPT !.listeners = @ \ {s.commentsUnsubscribe}]

\* The screen is opened: a new component with the initial state, while the
\* listeners left attached by earlier ones remain.  loadAssignmentDetails
\* finds the assignment or does not.
Mount ==
  /\ ~screen.mounted
  /\ screen.subscribed < MaxSubscriptions
  /\ \E found \in BOOLEAN, status \in AssignmentStatus :
       screen' =
         AssignmentEffect(
           [ScreenInit EXCEPT
              !.mounted = TRUE,
              !.listeners = screen.listeners,
              !.subscribed = screen.subscribed,
              !.assignment = IF found THEN LoadedAssignment(status, <<>>)
                             ELSE NoAssignment])
  /\ UNCHANGED <<docs, ruleSet, provider>>

\* What loadAssignmentDetails finds when the assignments of the context
\* changed: the object the screen already holds, another object, or nothing.
Lookups == {"same", "other", "none"}

\* The assignments of the assignment context changed: the effect's cleanup
\* runs, then loadAssignmentDetails.
AssignmentsChanged ==
  /\ screen.mounted
  /\ EffectsCanStart
  /\ \E lookup \in Lookups, status \in AssignmentStatus :
       LET s == CommentsCleanup(screen)
       IN screen' =
            IF lookup = "other" /\ s.assignment # LoadedAssignment(status, <<>>)
            THEN AssignmentEffect([s EXCEPT !.assignment =
                                              LoadedAssignment(status, <<>>)])
            ELSE IF lookup = "other"
            THEN AssignmentEffect(s)
            ELSE s
  /\ UNCHANGED <<docs, ruleSet, provider>>

\* The screen is closed: the effect's cleanup runs.
Unmount ==
  /\ screen.mounted
  /\ screen' = [CommentsCleanup(screen) EXCEPT !.mounted = FALSE]
  /\ UNCHANGED <<docs, ruleSet, provider>>

\* The screen is not open yet; the user has a current class.
InitComments ==
  /\ docs = EmptyStore({})
  /\ ruleSet = "current"
  /\ \E approval \in BOOLEAN : provider = ProviderWithClass(ScreenClass(approval))
  /\ screen = ScreenInit

NextComments ==
  \/ Mount
  \/ AssignmentsChanged
  \/ Unmount
  \/ HandleToggleStatus
  \/ \E i \in 1..MaxScreenCalls : HandleToggleStatusDone(i)
  \/ CheckClassRequiresApprovalDone
  \/ LoadCompletionsDone

SpecComments == InitComments /\ [][NextComments]_vars

\* C28: at any time at most one comments subscription of the assignment
\* screen is active, and after the screen unmounts none is active.
C28_OneCommentsSubscription ==
  /\ Cardinality(screen.listeners) <= 1
  /\ ~screen.mounted => screen.listeners = {}

====
